---- MODULE Spec2Model ----
(***************************************************************************)
(* Model of the Solana copy-trading bot: BotManager (app/core/             *)
(* bot_manager.py) and the wallet monitor of SolanaClient (app/core/       *)
(* solana_client.py), running as asyncio coroutines on one event loop.     *)
(*                                                                         *)
(* One TLA+ step is one uninterrupted run of a coroutine between two       *)
(* suspension points (an await that really suspends).  Amounts are floats  *)
(* in the source; here they are integers counting units of 0.0001 SOL.     *)
(***************************************************************************)
EXTENDS Integers, Sequences, FiniteSets, TLC

\* ---------------------------------------------------------------- bounds
\* Monitor tasks created in one behaviour (asyncio.create_task calls).
MaxTasks == 2
\* Log notifications delivered to the monitors in one behaviour.
MaxNotifs == 2
\* Direct calls of _process_transaction in the specification SpecPolicy.
MaxCalls == 1
\* Capacity of the history ring in the model (1000 in the source).
HistoryCap == 3
\* update_wallet calls in one behaviour.
MaxUpdates == 1
\* Direct calls of _process_transaction in the specification SpecHistory.
MaxInserts == 5
\* Largest limit and offset of a get_transaction_history call.
MaxLimit == 4
MaxOffset == 4
\* Instructions in a record of the specification SpecParse.
MaxInstructions == 2
\* Records handed to _process_log_notification's parser in SpecParse.
MaxParses == 1

\* ------------------------------------------------------------ data model
Wallets == {"a", "b"}
Sigs == {"s1", "s2", "s3"}

\* Optional[float]: None is the empty sequence, a present value x is <<x>>.
None == <<>>
Some(x) == <<x>>
\* Python truthiness of an Optional[float]: None and 0.0 are both falsy.
Truthy(opt) == opt # None /\ opt[1] # 0

\* TransactionType (schemas.py)
SOL_TRANSFER == "sol_transfer"
SPL_TRANSFER == "spl_transfer"
RAYDIUM_SWAP == "raydium_swap"
PROGRAM_INTERACTION == "program_interaction"
UNKNOWN == "unknown"
TransactionType == {SOL_TRANSFER, SPL_TRANSFER, RAYDIUM_SWAP, PROGRAM_INTERACTION, UNKNOWN}

\* BotStatus (schemas.py)
STOPPED == "stopped"
STARTING == "starting"
RUNNING == "running"
STOPPING == "stopping"
ERROR == "error"
BotStatus == {STOPPED, STARTING, RUNNING, STOPPING, ERROR}

\* WalletConfig (schemas.py); the defaults of its fields.
WalletConfig(address, enabled, copy_sol, copy_spl, copy_swaps, max_amount) ==
    [address |-> address, enabled |-> enabled, copy_sol |-> copy_sol,
     copy_spl |-> copy_spl, copy_swaps |-> copy_swaps, max_amount |-> max_amount]

\* TransactionInfo (schemas.py), without block_time and raw_data.
TransactionInfo(signature, transaction_type, source_wallet, amount, token_mint) ==
    [signature |-> signature, transaction_type |-> transaction_type,
     source_wallet |-> source_wallet, amount |-> amount,
     token_mint |-> token_mint, success |-> TRUE]

\* CopyTradingStats() (schemas.py): every counter 0, last_activity None.
\* last_activity is a logical timestamp: the number of the statistics update.
CopyTradingStats ==
    [total_transactions_copied |-> 0, successful_copies |-> 0, failed_copies |-> 0,
     total_volume_copied |-> 0, sol_transfers_copied |-> 0, spl_transfers_copied |-> 0,
     swaps_copied |-> 0, last_activity |-> None]

\* settings.min_transaction_amount (config.py): 0.001 SOL in units of 0.0001 SOL.
min_transaction_amount == 10
\* BotManager.max_history_size (1000 in the source, scaled to the model's capacity).
max_history_size == HistoryCap

\* --------------------------------------------------------------- state
VARIABLES
    status,                \* BotManager.status
    monitored_wallets,     \* BotManager.monitored_wallets: dict, as a sequence of items
    monitoring_tasks,      \* BotManager.monitoring_tasks: dict entries, with deleted slots
    tasks,                 \* the monitor tasks created so far, by task number
    ws_connections,        \* SolanaClient.ws_connections: wallet -> task that opened it, 0 absent
    subscription_ids,      \* SolanaClient.subscription_ids: wallet -> id, 0 absent
    transaction_history,   \* BotManager.transaction_history
    stats,                 \* BotManager.stats
    last_error,            \* BotManager.last_error
    loop,                  \* the coroutine holding the event loop between two of its steps
    stop_call,             \* the stop_monitoring() call in progress and its dict iterator
    copy_calls,            \* signature -> number of _copy_transaction invocations
    last_eval,             \* arguments and result of the last _should_copy_transaction call
    delivered,             \* notifications delivered so far
    updates_made,          \* update_wallet calls so far
    arrivals,              \* every transaction passed to _process_transaction, in order
    last_page,             \* arguments and result of the last get_transaction_history call
    start_from,            \* status when the start_monitoring call in progress began
    last_msg,              \* the last message a monitor read: its task, subscription id, signature
    sent,                  \* the transactions submitted through SolanaClient.send_transaction
    last_parse             \* record and result of the last direct _parse_transaction call

vars == <<status, monitored_wallets, monitoring_tasks, tasks, ws_connections,
          subscription_ids, transaction_history, stats, last_error, loop,
          stop_call, copy_calls, last_eval, delivered, updates_made,
          arrivals, last_page, start_from, last_msg, sent, last_parse>>

\* ------------------------------------------------- copy policy evaluator
\* _should_copy_transaction with the token-transfer gate reading copy_sol.
ShouldCopyWrongToggle(transaction_info, config) ==
    IF transaction_info.transaction_type = SOL_TRANSFER /\ ~config.copy_sol THEN FALSE
    ELSE IF transaction_info.transaction_type = SPL_TRANSFER /\ ~config.copy_sol THEN FALSE
    ELSE IF transaction_info.transaction_type = RAYDIUM_SWAP /\ ~config.copy_swaps THEN FALSE
    ELSE IF Truthy(transaction_info.amount)
            /\ Truthy(config.max_amount)
            /\ transaction_info.amount[1] > config.max_amount[1] THEN FALSE
    ELSE IF Truthy(transaction_info.amount)
            /\ transaction_info.amount[1] < min_transaction_amount THEN FALSE
    ELSE TRUE

\* _should_copy_transaction failing closed: an absent amount is rejected.
ShouldCopyFailClosed(transaction_info, config) ==
    IF transaction_info.transaction_type = SOL_TRANSFER /\ ~config.copy_sol THEN FALSE
    ELSE IF transaction_info.transaction_type = SPL_TRANSFER /\ ~config.copy_spl THEN FALSE
    ELSE IF transaction_info.transaction_type = RAYDIUM_SWAP /\ ~config.copy_swaps THEN FALSE
    ELSE IF transaction_info.amount = None THEN FALSE
    ELSE IF Truthy(transaction_info.amount)
            /\ Truthy(config.max_amount)
            /\ transaction_info.amount[1] > config.max_amount[1] THEN FALSE
    ELSE IF Truthy(transaction_info.amount)
            /\ transaction_info.amount[1] < min_transaction_amount THEN FALSE
    ELSE TRUE

\* BotManager._should_copy_transaction
_should_copy_transaction(transaction_info, config) ==
    IF transaction_info.transaction_type = SOL_TRANSFER /\ ~config.copy_sol THEN FALSE
    ELSE IF transaction_info.transaction_type = SPL_TRANSFER /\ ~config.copy_spl THEN FALSE
    ELSE IF transaction_info.transaction_type = RAYDIUM_SWAP /\ ~config.copy_swaps THEN FALSE
    ELSE IF Truthy(transaction_info.amount)
            /\ Truthy(config.max_amount)
            /\ transaction_info.amount[1] > config.max_amount[1] THEN FALSE
    ELSE IF Truthy(transaction_info.amount)
            /\ transaction_info.amount[1] < min_transaction_amount THEN FALSE
    ELSE TRUE

\* BotManager._copy_transaction with _copy_sol_transfer, _copy_spl_transfer and
\* _copy_raydium_swap: the three strategies log and return True, any other
\* kind is unsupported and returns False.  None of them suspends.
_copy_transaction(transaction_info) ==
    transaction_info.transaction_type \in {SOL_TRANSFER, SPL_TRANSFER, RAYDIUM_SWAP}

\* A statistics update that counts every attempt as a success.
UpdateStatsAlwaysSuccess(s, transaction_info, success) ==
    [s EXCEPT !.total_transactions_copied = @ + 1,
              !.successful_copies = @ + 1,
              !.last_activity = Some(s.total_transactions_copied + 1)]

\* A statistics update that counts a failed attempt in the total only.
UpdateStatsFailureUncounted(s, transaction_info, success) ==
    IF success THEN UpdateStatsAlwaysSuccess(s, transaction_info, success)
    ELSE [s EXCEPT !.total_transactions_copied = @ + 1,
                   !.last_activity = Some(s.total_transactions_copied + 1)]

\* The statistics update of _process_transaction after a copy attempt.
UpdateStats(s, transaction_info, success) ==
    LET s1 == [s EXCEPT !.total_transactions_copied = @ + 1]
        s2 == IF success
              THEN LET v == [s1 EXCEPT !.successful_copies = @ + 1,
                                       !.total_volume_copied =
                                           IF Truthy(transaction_info.amount)
                                           THEN @ + transaction_info.amount[1] ELSE @]
                   IN  CASE transaction_info.transaction_type = SOL_TRANSFER ->
                                [v EXCEPT !.sol_transfers_copied = @ + 1]
                         [] transaction_info.transaction_type = SPL_TRANSFER ->
                                [v EXCEPT !.spl_transfers_copied = @ + 1]
                         [] transaction_info.transaction_type = RAYDIUM_SWAP ->
                                [v EXCEPT !.swaps_copied = @ + 1]
                         [] OTHER -> v
              ELSE [s1 EXCEPT !.failed_copies = @ + 1]
    IN  [s2 EXCEPT !.last_activity = Some(s2.total_transactions_copied)]

\* The history append evicting the newest entry instead of the oldest.
AppendHistoryDropNewest(history, transaction_info) ==
    LET h == Append(history, transaction_info)
    IN  IF Len(h) > max_history_size THEN SubSeq(h, 1, Len(h) - 1) ELSE h

\* The history append of _process_transaction: append, then pop(0) on overflow.
AppendHistory(history, transaction_info) ==
    LET h == Append(history, transaction_info)
    IN  IF Len(h) > max_history_size THEN Tail(h) ELSE h

\* The transactions _copy_transaction submits through send_transaction for a
\* transaction: none, its three strategies only log what they would copy.
Submissions(transaction_info) == <<>>

\* _process_transaction attempting the copy of every transaction, eligible or not.
ProcessWithoutPolicy(transaction_info, config) ==
    /\ transaction_history' = AppendHistory(transaction_history, transaction_info)
    /\ last_eval' = <<transaction_info, config,
                      _should_copy_transaction(transaction_info, config)>>
    /\ arrivals' = Append(arrivals, transaction_info)
    /\ copy_calls' = [copy_calls EXCEPT ![transaction_info.signature] = @ + 1]
    /\ stats' = UpdateStats(stats, transaction_info, _copy_transaction(transaction_info))
    /\ sent' = sent \o Submissions(transaction_info)

\* BotManager._process_transaction: one uninterrupted run (the copy strategies
\* never suspend).
_process_transaction(transaction_info, config) ==
    LET eligible == _should_copy_transaction(transaction_info, config)
    IN  /\ transaction_history' = AppendHistory(transaction_history, transaction_info)
        /\ last_eval' = <<transaction_info, config, eligible>>
        /\ arrivals' = Append(arrivals, transaction_info)
        /\ IF eligible
           THEN /\ copy_calls' = [copy_calls EXCEPT ![transaction_info.signature] = @ + 1]
                /\ stats' = UpdateStats(stats, transaction_info,
                                        _copy_transaction(transaction_info))
                /\ sent' = sent \o Submissions(transaction_info)
           ELSE UNCHANGED <<copy_calls, stats, sent>>

\* ------------------------------------------------------------- the start
\* The state when the application starts serving: BotManager() and
\* initialize() have run (main.py lifespan), settings.target_wallets is empty.
Init ==
    /\ status = STOPPED
    /\ monitored_wallets = <<>>
    /\ monitoring_tasks = <<>>
    /\ tasks = <<>>
    /\ ws_connections = [w \in Wallets |-> 0]
    /\ subscription_ids = [w \in Wallets |-> 0]
    /\ transaction_history = <<>>
    /\ stats = CopyTradingStats
    /\ last_error = None
    /\ loop = "idle"
    /\ stop_call = [pc |-> "idle", pos |-> 0, used |-> 0, len |-> 0, waiting |-> 0,
                    result |-> "none"]
    /\ copy_calls = [s \in Sigs |-> 0]
    /\ last_eval = <<>>
    /\ delivered = 0
    /\ updates_made = 0
    /\ arrivals = <<>>
    /\ last_page = <<>>
    /\ start_from = "none"
    /\ last_msg = <<>>
    /\ sent = <<>>
    /\ last_parse = <<>>

\* ------------------------------------------------------------ the ledger
\* What getTransaction returns for each signature: s1 has an instruction whose
\* programIdIndex is 0, s2 is a system-program transfer whose program sits at
\* index 2 of the account list, s3 failed on-chain (meta.err set).  In each
\* record account a pays 0.8 SOL to account b (meta.preBalances and
\* meta.postBalances, in units of 0.0001 SOL).
SYSTEM_PROGRAM == "11111111111111111111111111111111"
Ledger ==
    [s \in Sigs |->
        [err |-> (s = "s3"),
         signatures |-> <<s>>,
         accountKeys |-> <<"a", "b", SYSTEM_PROGRAM>>,
         preBalances |-> <<20000, 0, 1>>,
         postBalances |-> <<12000, 8000, 1>>,
         instructions |-> IF s = "s1" THEN <<[programIdIndex |-> 0]>>
                                      ELSE <<[programIdIndex |-> 2]>>]]

\* JSON values where an instruction is expected: an object is a record of its
\* keys, a string is written [str |-> text].  Only an object has .get.
IsMapping(instruction) == "str" \notin DOMAIN instruction
\* instruction.get("programIdIndex") == 0 for an object (None for a missing key).
HasIndex0(instruction) ==
    "programIdIndex" \in DOMAIN instruction /\ instruction.programIdIndex = 0

\* The loop of _is_sol_transfer raises AttributeError: it reaches a value that
\* is not a mapping before it has returned True.
IsSolTransferRaises(instructions) ==
    \E i \in 1..Len(instructions) :
        /\ ~IsMapping(instructions[i])
        /\ \A j \in 1..(i - 1) : ~HasIndex0(instructions[j])

\* SolanaClient._is_sol_transfer, when it returns: True at the first
\* instruction whose programIdIndex is 0.
_is_sol_transfer(instructions) ==
    \E i \in 1..Len(instructions) :
        /\ HasIndex0(instructions[i])
        /\ \A j \in 1..(i - 1) : IsMapping(instructions[j])

\* SolanaClient._is_spl_transfer and _is_raydium_swap: placeholders.
_is_spl_transfer(instructions) == FALSE
_is_raydium_swap(instructions) == FALSE

\* SolanaClient._extract_sol_amount, _extract_spl_amount, _extract_swap_amount:
\* placeholders that return None.
_extract_sol_amount(instructions, source_wallet) == None
_extract_spl_amount(instructions, source_wallet) == <<None, None>>
_extract_swap_amount(instructions, source_wallet) == None

\* _parse_transaction without its test of meta.err: a failed record is
\* classified like any other.
ParseIgnoringErr(tx_data, source_wallet) ==
    LET instructions == tx_data.instructions
        sig == tx_data.signatures[1]
    IN  IF _is_sol_transfer(instructions)
        THEN Some(TransactionInfo(sig, SOL_TRANSFER, source_wallet,
                                  _extract_sol_amount(instructions, source_wallet), None))
        ELSE Some(TransactionInfo(sig, UNKNOWN, source_wallet, None, None))

\* SolanaClient._parse_transaction: None for a failed transaction and when an
\* exception is caught (AttributeError of _is_sol_transfer, IndexError of
\* signatures[0] on an empty list), else Some(info).
_parse_transaction(tx_data, source_wallet) ==
    IF tx_data.err THEN None
    ELSE IF IsSolTransferRaises(tx_data.instructions) THEN None
    ELSE IF tx_data.signatures = <<>> THEN None
    ELSE LET instructions == tx_data.instructions
             sig == tx_data.signatures[1]
         IN  IF _is_sol_transfer(instructions)
             THEN Some(TransactionInfo(sig, SOL_TRANSFER, source_wallet,
                                       _extract_sol_amount(instructions, source_wallet), None))
             ELSE IF _is_spl_transfer(instructions)
             THEN Some(TransactionInfo(sig, SPL_TRANSFER, source_wallet,
                                       _extract_spl_amount(instructions, source_wallet)[1],
                                       _extract_spl_amount(instructions, source_wallet)[2]))
             ELSE IF _is_raydium_swap(instructions)
             THEN Some(TransactionInfo(sig, RAYDIUM_SWAP, source_wallet,
                                       _extract_swap_amount(instructions, source_wallet), None))
             ELSE Some(TransactionInfo(sig, UNKNOWN, source_wallet, None, None))

\* ------------------------------------------------------- the two dicts
\* monitored_wallets: items [key, config] in insertion order.
HasWallet(d, k) == \E i \in 1..Len(d) : d[i].key = k
WalletSlot(d, k) == CHOOSE i \in 1..Len(d) : d[i].key = k
SetWallet(d, k, config) ==
    IF HasWallet(d, k) THEN [d EXCEPT ![WalletSlot(d, k)].config = config]
    ELSE Append(d, [key |-> k, config |-> config])
DelWallet(d, k) ==
    LET i == WalletSlot(d, k) IN SubSeq(d, 1, i - 1) \o SubSeq(d, i + 1, Len(d))

\* monitoring_tasks: CPython's entry array, entries [address, task] in insertion
\* order; del leaves an empty slot (task 0) behind, a new key is appended, and
\* clear() empties the array.  An iterator holds a position in this array.
HasTask(d, k) == \E i \in 1..Len(d) : d[i].address = k /\ d[i].task # 0
TaskSlot(d, k) == CHOOSE i \in 1..Len(d) : d[i].address = k /\ d[i].task # 0
SetTask(d, k, t) ==
    IF HasTask(d, k) THEN [d EXCEPT ![TaskSlot(d, k)].task = t]
    ELSE Append(d, [address |-> k, task |-> t])
DelTask(d, k) == [d EXCEPT ![TaskSlot(d, k)].task = 0]
\* len(d)
Used(d) == Cardinality({i \in 1..Len(d) : d[i].task # 0})

\* ------------------------------------------------------ monitor tasks
\* A task created by asyncio.create_task(self._monitor_wallet(address, config)).
\* pc is the await the coroutine is suspended at; config is the WalletConfig
\* object the callback captured, aliased tells whether that object is still the
\* one stored in monitored_wallets (update_wallet mutates it in place).
NewTask(wallet_address, config) ==
    [wallet |-> wallet_address, pc |-> "created", cancelling |-> FALSE,
     config |-> config, aliased |-> TRUE, sig |-> "none"]

\* A finished task (returned or cancelled); only its wallet is remembered.
Done(task) ==
    [wallet |-> task.wallet, pc |-> "done", cancelling |-> FALSE,
     config |-> WalletConfig(task.wallet, TRUE, TRUE, TRUE, TRUE, None),
     aliased |-> FALSE, sig |-> "none"]

\* task.cancel(): no effect on a finished task; otherwise the awaited future is
\* cancelled at once and CancelledError is raised in the task at its next step.
Cancel(ts, t) ==
    IF ts[t].pc = "done" THEN ts ELSE [ts EXCEPT ![t].cancelling = TRUE]

\* BotManager._start_wallet_monitoring: create the task, store it under the
\* address (replacing what was stored there).  Returns <<tasks, monitoring_tasks>>.
_start_wallet_monitoring(ts, mt, wallet_address, config) ==
    <<Append(ts, NewTask(wallet_address, config)), SetTask(mt, wallet_address, Len(ts) + 1)>>

\* The loop of start_monitoring without its test of config.enabled.
RECURSIVE StartAllEvenDisabled(_, _, _)
StartAllEvenDisabled(items, ts, mt) ==
    IF items = <<>> THEN <<ts, mt>>
    ELSE LET item == Head(items)
             r == _start_wallet_monitoring(ts, mt, item.key, item.config)
         IN  StartAllEvenDisabled(Tail(items), r[1], r[2])

\* The loop of start_monitoring over monitored_wallets.items().
RECURSIVE StartAll(_, _, _)
StartAll(items, ts, mt) ==
    IF items = <<>> THEN <<ts, mt>>
    ELSE LET item == Head(items)
             r == IF item.config.enabled
                  THEN _start_wallet_monitoring(ts, mt, item.key, item.config)
                  ELSE <<ts, mt>>
         IN  StartAll(Tail(items), r[1], r[2])

EnabledCount(items) == Cardinality({i \in 1..Len(items) : items[i].config.enabled})

Idle == loop = "idle"
Runnable(t) == Idle /\ t \in 1..Len(tasks) /\ tasks[t].pc # "done" /\ ~tasks[t].cancelling

\* A finally block that drops the records of every wallet.
CleanUpAll(wallet_address) ==
    /\ ws_connections' = [w \in Wallets |-> 0]
    /\ subscription_ids' = [w \in Wallets |-> 0]

\* The finally block of SolanaClient.monitor_wallet.
CleanUp(wallet_address) ==
    /\ ws_connections' = [ws_connections EXCEPT ![wallet_address] = 0]
    /\ subscription_ids' = [subscription_ids EXCEPT ![wallet_address] = 0]

\* ---------------------------------------- the pipeline on its own inputs
\* Inputs of the policy evaluator: every kind, amounts around the floor (10),
\* the scenario amounts 0.1, 0.3, 0.5 and 0.8 SOL, an absent and a zero amount.
AmountInputs ==
    {None, Some(0), Some(5), Some(10), Some(1000), Some(3000), Some(5000), Some(8000)}
MaxAmountInputs == {None, Some(0), Some(5000)}
TxInputs ==
    {TransactionInfo("s1", k, "a", amt, None) : k \in TransactionType, amt \in AmountInputs}
ConfigInputs ==
    {WalletConfig("a", TRUE, cs, cp, cw, m) :
        cs \in BOOLEAN, cp \in BOOLEAN, cw \in BOOLEAN, m \in MaxAmountInputs}

\* _process_transaction called on a classified transaction and a policy.
PolicyCall ==
    /\ Len(transaction_history) < MaxCalls
    /\ \E transaction_info \in TxInputs, config \in ConfigInputs :
           _process_transaction(transaction_info, config)
    /\ UNCHANGED <<status, monitored_wallets, monitoring_tasks, tasks, ws_connections,
                   subscription_ids, last_error, loop, stop_call, delivered, updates_made,
                   last_page, last_parse, start_from, last_msg>>

PolicyNext == PolicyCall

SpecPolicy == Init /\ [][PolicyNext]_vars

\* ------------------------------------------------- the history ring
Max0(x) == IF x > 0 THEN x ELSE 0
Min(x, y) == IF x < y THEN x ELSE y

\* list[lo:hi] of Python for lo, hi >= 0.
PySlice(list, lo, hi) == SubSeq(list, lo + 1, Min(hi, Len(list)))

\* A slice bound of Python: a negative bound counts from the end of the list.
PyBound(n, len) == IF n < 0 THEN Max0(len + n) ELSE Min(n, len)

\* get_transaction_history without the max(0, ...) clamps: history[start:end].
GetHistoryNoClamp(limit, offset) ==
    LET start == Len(transaction_history) - offset - limit
        end == Len(transaction_history) - offset
    IN  SubSeq(transaction_history, PyBound(start, Len(transaction_history)) + 1,
               PyBound(end, Len(transaction_history)))

\* BotManager.get_transaction_history
get_transaction_history(limit, offset) ==
    LET start == Len(transaction_history) - offset - limit
        end == Len(transaction_history) - offset
    IN  PySlice(transaction_history, Max0(start), Max0(end))

\* Transactions the history specification inserts: native transfers of 0.1 SOL
\* from wallet a, told apart by their signature.
HistoryInputs == {TransactionInfo(s, SOL_TRANSFER, "a", Some(1000), None) : s \in Sigs}

\* _process_transaction called on one of them.
HistoryCall ==
    /\ Len(arrivals) < MaxInserts
    /\ \E transaction_info \in HistoryInputs :
           _process_transaction(transaction_info,
                                WalletConfig("a", TRUE, TRUE, TRUE, TRUE, None))
    /\ UNCHANGED <<status, monitored_wallets, monitoring_tasks, tasks, ws_connections,
                   subscription_ids, last_error, loop, stop_call, delivered, updates_made,
                   last_page, last_parse, start_from, last_msg>>

\* GET /transactions (endpoints.py): limit >= 1 and offset >= 0 are enforced by
\* the query validators; the response carries the page and the history length.
GetHistory(limit, offset) ==
    /\ last_page' = [limit |-> limit, offset |-> offset,
                     transactions |-> get_transaction_history(limit, offset),
                     total_count |-> Len(transaction_history)]
    /\ UNCHANGED <<status, monitored_wallets, monitoring_tasks, tasks, ws_connections,
                   subscription_ids, transaction_history, stats, last_error, loop,
                   stop_call, copy_calls, last_eval, delivered, updates_made,
                   arrivals, last_parse, start_from, last_msg, sent>>

HistoryNext ==
    \/ HistoryCall
    \/ \E limit \in 1..MaxLimit, offset \in 0..MaxOffset : GetHistory(limit, offset)

SpecHistory == Init /\ [][HistoryNext]_vars

\* ------------------------------------------- the parser on its own inputs
\* Program addresses of records the parser is given: the token program and a
\* swap program (the AMM the swap check is named after).
TOKEN_PROGRAM == "TokenkegQfeZyiNwAJbNbGKPFXCWuBvf9Ss623VQ5DA"
RAYDIUM_PROGRAM == "675kPX9MHTjS2zt1qfr1NYHuzeLXfQM9H24wFSUd2Mp8"
ParseAccountKeys == <<"a", "b", SYSTEM_PROGRAM, TOKEN_PROGRAM, RAYDIUM_PROGRAM>>

\* Values in the instruction list of a record: an instruction whose
\* programIdIndex is 0 (the account a), a system-program transfer, a
\* token-program Transfer (opcode 3) and MintTo (opcode 7), a swap-program
\* swap (opcode 9), and a string where an instruction object is expected.
InstructionInputs ==
    {[programIdIndex |-> 0, data |-> 2],
     [programIdIndex |-> 2, data |-> 2],
     [programIdIndex |-> 3, data |-> 3],
     [programIdIndex |-> 3, data |-> 7],
     [programIdIndex |-> 4, data |-> 9],
     [str |-> "junk"]}

\* The records _parse_transaction is given: failed or not, with one signature
\* or an empty signatures list, and up to MaxInstructions instructions.
ParseInputs ==
    {[err |-> e, signatures |-> sigs, accountKeys |-> ParseAccountKeys,
      instructions |-> instructions] :
        e \in BOOLEAN, sigs \in {<<>>, <<"s1">>},
        instructions \in UNION {[1..n -> InstructionInputs] : n \in 0..MaxInstructions}}

\* _process_log_notification from the fetched record on: _parse_transaction,
\* and callback(transaction_info) when it returned one; the callback runs
\* _process_transaction under the wallet's policy.
ParseCall(tx_data, wallet_address) ==
    LET transaction_info == _parse_transaction(tx_data, wallet_address)
    IN  /\ delivered < MaxParses
        /\ delivered' = delivered + 1
        /\ last_parse' = [tx_data |-> tx_data, source_wallet |-> wallet_address,
                          result |-> transaction_info]
        /\ IF transaction_info # None
           THEN _process_transaction(transaction_info[1],
                                     WalletConfig(wallet_address, TRUE, TRUE, TRUE, TRUE, None))
           ELSE UNCHANGED <<transaction_history, last_eval, arrivals, copy_calls, stats, sent>>
        /\ UNCHANGED <<status, monitored_wallets, monitoring_tasks, tasks, ws_connections,
                       subscription_ids, last_error, loop, stop_call, updates_made,
                       last_page, start_from, last_msg>>

ParseNext == \E tx_data \in ParseInputs, wallet_address \in Wallets :
                 ParseCall(tx_data, wallet_address)

SpecParse == Init /\ [][ParseNext]_vars

\* ------------------------------------------ SolanaClient.monitor_wallet
\* First step of a monitor task: _monitor_wallet calls monitor_wallet, which
\* returns at once when the address is in ws_connections (before its try
\* block), and otherwise suspends in websockets.connect.
TaskStart(t) ==
    /\ Runnable(t) /\ tasks[t].pc = "created"
    /\ tasks' = IF ws_connections[tasks[t].wallet] # 0
                THEN [tasks EXCEPT ![t] = Done(@)]
                ELSE [tasks EXCEPT ![t].pc = "connecting"]
    /\ UNCHANGED <<status, monitored_wallets, monitoring_tasks, ws_connections,
                   subscription_ids, transaction_history, stats, last_error, loop,
                   stop_call, copy_calls, last_eval, delivered, updates_made,
                   arrivals, last_page, last_parse, start_from, last_msg, sent>>

\* websockets.connect returned: the connection is recorded, the subscribe
\* request sent, and the task waits for the response.
ConnectOk(t) ==
    /\ Runnable(t) /\ tasks[t].pc = "connecting"
    /\ ws_connections' = [ws_connections EXCEPT ![tasks[t].wallet] = t]
    /\ tasks' = [tasks EXCEPT ![t].pc = "subscribing"]
    /\ UNCHANGED <<status, monitored_wallets, monitoring_tasks, subscription_ids,
                   transaction_history, stats, last_error, loop, stop_call,
                   copy_calls, last_eval, delivered, updates_made,
                   arrivals, last_page, last_parse, start_from, last_msg, sent>>

\* websockets.connect raised: logged by monitor_wallet, then its finally block.
ConnectFail(t) ==
    /\ Runnable(t) /\ tasks[t].pc = "connecting"
    /\ CleanUp(tasks[t].wallet)
    /\ tasks' = [tasks EXCEPT ![t] = Done(@)]
    /\ UNCHANGED <<status, monitored_wallets, monitoring_tasks, transaction_history,
                   stats, last_error, loop, stop_call, copy_calls, last_eval, delivered, updates_made,
                   arrivals, last_page, last_parse, start_from, last_msg, sent>>

\* The subscribe response carries a result: the id is recorded (the id of the
\* subscription of task t is t) and the task waits for the first message.
SubscribeOk(t) ==
    /\ Runnable(t) /\ tasks[t].pc = "subscribing"
    /\ subscription_ids' = [subscription_ids EXCEPT ![tasks[t].wallet] = t]
    /\ tasks' = [tasks EXCEPT ![t].pc = "listening"]
    /\ UNCHANGED <<status, monitored_wallets, monitoring_tasks, ws_connections,
                   transaction_history, stats, last_error, loop, stop_call,
                   copy_calls, last_eval, delivered, updates_made,
                   arrivals, last_page, last_parse, start_from, last_msg, sent>>

\* The subscribe response carries no result (or the exchange raised): return
\* through the finally block.
SubscribeFail(t) ==
    /\ Runnable(t) /\ tasks[t].pc = "subscribing"
    /\ CleanUp(tasks[t].wallet)
    /\ tasks' = [tasks EXCEPT ![t] = Done(@)]
    /\ UNCHANGED <<status, monitored_wallets, monitoring_tasks, transaction_history,
                   stats, last_error, loop, stop_call, copy_calls, last_eval, delivered, updates_made,
                   arrivals, last_page, last_parse, start_from, last_msg, sent>>

\* ws.recv() returned a notification of this subscription with signature s:
\* _process_log_notification suspends in get_transaction(s).
RecvNotification(t, s) ==
    /\ Runnable(t) /\ tasks[t].pc = "listening"
    /\ delivered < MaxNotifs
    /\ delivered' = delivered + 1
    /\ tasks' = [tasks EXCEPT ![t].pc = "fetching", ![t].sig = s]
    /\ UNCHANGED <<status, monitored_wallets, monitoring_tasks, ws_connections,
                   subscription_ids, transaction_history, stats, last_error, loop,
                   stop_call, copy_calls, last_eval, updates_made,
                   arrivals, last_page, last_parse, start_from, last_msg, sent>>

\* monitor_wallet connecting again after ConnectionClosed instead of ending.
ConnectionClosedReconnect(t) ==
    /\ Runnable(t) /\ tasks[t].pc = "listening"
    /\ CleanUp(tasks[t].wallet)
    /\ tasks' = [tasks EXCEPT ![t].pc = "connecting"]
    /\ UNCHANGED <<status, monitored_wallets, monitoring_tasks, transaction_history,
                   stats, last_error, loop, stop_call, copy_calls, last_eval, delivered,
                   updates_made, arrivals, last_page, last_parse, start_from, last_msg, sent>>

\* The id of the subscription of task t (the local subscription_id of its
\* monitor_wallet call).
SubscriptionId(t) == t

\* The receive loop handing every message to _process_log_notification,
\* whatever its subscription id.
RecvMessageAnyId(t, s, subscription) ==
    /\ Runnable(t) /\ tasks[t].pc = "listening"
    /\ delivered < MaxNotifs
    /\ delivered' = delivered + 1
    /\ last_msg' = [task |-> t, subscription |-> subscription]
    /\ tasks' = [tasks EXCEPT ![t].pc = "fetching", ![t].sig = s]
    /\ UNCHANGED <<status, monitored_wallets, monitoring_tasks, ws_connections,
                   subscription_ids, transaction_history, stats, last_error, loop,
                   stop_call, copy_calls, last_eval, updates_made,
                   arrivals, last_page, last_parse, start_from, sent>>

\* ws.recv() returned a message with "params": a notification with signature s
\* that names a subscription id.  It is handed to _process_log_notification
\* when the id is the monitor's own; otherwise the loop reads the next message.
RecvMessage(t, s, subscription) ==
    /\ Runnable(t) /\ tasks[t].pc = "listening"
    /\ delivered < MaxNotifs
    /\ delivered' = delivered + 1
    /\ last_msg' = [task |-> t, subscription |-> subscription]
    /\ tasks' = IF subscription = SubscriptionId(t)
                THEN [tasks EXCEPT ![t].pc = "fetching", ![t].sig = s]
                ELSE tasks
    /\ UNCHANGED <<status, monitored_wallets, monitoring_tasks, ws_connections,
                   subscription_ids, transaction_history, stats, last_error, loop,
                   stop_call, copy_calls, last_eval, updates_made,
                   arrivals, last_page, last_parse, start_from, sent>>

\* ws.recv() raised ConnectionClosed or WebSocketException: break, finally.
ConnectionClosed(t) ==
    /\ Runnable(t) /\ tasks[t].pc = "listening"
    /\ CleanUp(tasks[t].wallet)
    /\ tasks' = [tasks EXCEPT ![t] = Done(@)]
    /\ UNCHANGED <<status, monitored_wallets, monitoring_tasks, transaction_history,
                   stats, last_error, loop, stop_call, copy_calls, last_eval, delivered, updates_made,
                   arrivals, last_page, last_parse, start_from, last_msg, sent>>

\* get_transaction returned None (the RPC call failed): back to ws.recv().
FetchFailed(t) ==
    /\ Runnable(t) /\ tasks[t].pc = "fetching"
    /\ tasks' = [tasks EXCEPT ![t].pc = "listening", ![t].sig = "none"]
    /\ UNCHANGED <<status, monitored_wallets, monitoring_tasks, ws_connections,
                   subscription_ids, transaction_history, stats, last_error, loop,
                   stop_call, copy_calls, last_eval, delivered, updates_made,
                   arrivals, last_page, last_parse, start_from, last_msg, sent>>

\* get_transaction returned the record: _parse_transaction; a failed record is
\* dropped, otherwise callback(transaction_info) creates the task running
\* _process_transaction and the monitor awaits it.
FetchOk(t) ==
    /\ Runnable(t) /\ tasks[t].pc = "fetching"
    /\ tasks' = IF _parse_transaction(Ledger[tasks[t].sig], tasks[t].wallet) = None
                THEN [tasks EXCEPT ![t].pc = "listening", ![t].sig = "none"]
                ELSE [tasks EXCEPT ![t].pc = "callback"]
    /\ UNCHANGED <<status, monitored_wallets, monitoring_tasks, ws_connections,
                   subscription_ids, transaction_history, stats, last_error, loop,
                   stop_call, copy_calls, last_eval, delivered, updates_made,
                   arrivals, last_page, last_parse, start_from, last_msg, sent>>

\* The task created by the callback runs _process_transaction to its end, and
\* the monitor that awaited it goes back to ws.recv().
ProcessTransaction(t) ==
    /\ Runnable(t) /\ tasks[t].pc = "callback"
    /\ _process_transaction(_parse_transaction(Ledger[tasks[t].sig], tasks[t].wallet)[1],
                            tasks[t].config)
    /\ tasks' = [tasks EXCEPT ![t].pc = "listening", ![t].sig = "none"]
    /\ UNCHANGED <<status, monitored_wallets, monitoring_tasks, ws_connections,
                   subscription_ids, last_error, loop, stop_call, delivered, updates_made,
                   last_page, last_parse, start_from, last_msg>>

\* CancelledError raised in a cancelled task at its next step.  A task that
\* never started ends without running any code; otherwise the error passes the
\* except Exception clauses and the finally block of monitor_wallet runs.  A
\* callback task the monitor was awaiting is cancelled with it, before it ran.
TaskCancelled(t) ==
    /\ Idle /\ t \in 1..Len(tasks) /\ tasks[t].pc # "done" /\ tasks[t].cancelling
    /\ IF tasks[t].pc = "created"
       THEN UNCHANGED <<ws_connections, subscription_ids>>
       ELSE CleanUp(tasks[t].wallet)
    /\ tasks' = [tasks EXCEPT ![t] = Done(@)]
    /\ UNCHANGED <<status, monitored_wallets, monitoring_tasks, transaction_history,
                   stats, last_error, loop, stop_call, copy_calls, last_eval, delivered, updates_made,
                   arrivals, last_page, last_parse, start_from, last_msg, sent>>

\* --------------------------------------------------------- BotManager
\* Policies the administrative API adds.
AddInputs ==
    {WalletConfig("a", TRUE, TRUE, TRUE, TRUE, Some(5000)),
     WalletConfig("a", FALSE, TRUE, TRUE, TRUE, None),
     WalletConfig("b", TRUE, FALSE, TRUE, TRUE, None)}

\* The tasks whose captured config object leaves monitored_wallets.
Unalias(ts, wallet_address) ==
    [t \in 1..Len(ts) |->
        IF ts[t].wallet = wallet_address THEN [ts[t] EXCEPT !.aliased = FALSE] ELSE ts[t]]

\* BotManager.add_wallet
add_wallet(wallet_config) ==
    /\ Idle
    /\ monitored_wallets' = SetWallet(monitored_wallets, wallet_config.address, wallet_config)
    /\ IF status = RUNNING /\ wallet_config.enabled
       THEN /\ Len(tasks) < MaxTasks
            /\ LET r == _start_wallet_monitoring(Unalias(tasks, wallet_config.address),
                                                 monitoring_tasks, wallet_config.address,
                                                 wallet_config)
               IN  tasks' = r[1] /\ monitoring_tasks' = r[2]
       ELSE /\ tasks' = Unalias(tasks, wallet_config.address)
            /\ UNCHANGED monitoring_tasks
    /\ UNCHANGED <<status, ws_connections, subscription_ids, transaction_history, stats,
                   last_error, loop, stop_call, copy_calls, last_eval, delivered, updates_made,
                   arrivals, last_page, last_parse, start_from, last_msg, sent>>

\* BotManager.remove_wallet: the task is cancelled, not awaited.
remove_wallet(wallet_address) ==
    /\ Idle
    /\ IF HasTask(monitoring_tasks, wallet_address)
       THEN /\ tasks' = Unalias(Cancel(tasks, monitoring_tasks[TaskSlot(monitoring_tasks,
                                                   wallet_address)].task), wallet_address)
            /\ monitoring_tasks' = DelTask(monitoring_tasks, wallet_address)
       ELSE /\ tasks' = Unalias(tasks, wallet_address)
            /\ UNCHANGED monitoring_tasks
    /\ monitored_wallets' = IF HasWallet(monitored_wallets, wallet_address)
                            THEN DelWallet(monitored_wallets, wallet_address)
                            ELSE monitored_wallets
    /\ UNCHANGED <<status, ws_connections, subscription_ids, transaction_history, stats,
                   last_error, loop, stop_call, copy_calls, last_eval, delivered, updates_made,
                   arrivals, last_page, last_parse, start_from, last_msg, sent>>

\* The updates dictionaries update_wallet is called with: two that the
\* administrative API sends (the fields of UpdateWalletRequest that are not
\* None) and one, naming the address, of a direct call.
PatchInputs == {[copy_sol |-> FALSE], [enabled |-> FALSE], [address |-> "b"]}

\* The setattr loop of update_wallet: the fields named in the patch that the
\* config has.
ApplyPatch(config, updates) ==
    [f \in DOMAIN config |-> IF f \in DOMAIN updates THEN updates[f] ELSE config[f]]

\* BotManager.update_wallet: the stored WalletConfig object is mutated in
\* place, so the monitor tasks that captured this object see the change.
update_wallet(wallet_address, updates) ==
    /\ Idle
    /\ updates_made < MaxUpdates
    /\ updates_made' = updates_made + 1
    /\ IF HasWallet(monitored_wallets, wallet_address)
       THEN /\ monitored_wallets' =
                   [monitored_wallets EXCEPT ![WalletSlot(monitored_wallets, wallet_address)].config
                        = ApplyPatch(@, updates)]
            /\ tasks' = [t \in 1..Len(tasks) |->
                            IF tasks[t].wallet = wallet_address /\ tasks[t].aliased
                            THEN [tasks[t] EXCEPT !.config = ApplyPatch(@, updates)]
                            ELSE tasks[t]]
       ELSE UNCHANGED <<monitored_wallets, tasks>>
    /\ UNCHANGED <<status, monitoring_tasks, ws_connections, subscription_ids,
                   transaction_history, stats, last_error, loop, stop_call, copy_calls,
                   last_eval, delivered, arrivals, last_page, last_parse, start_from, last_msg, sent>>

\* BotManager.get_status, without uptime_seconds.
get_status ==
    [status |-> status, is_running |-> (status = RUNNING),
     monitored_wallets |-> Used(monitoring_tasks), stats |-> stats,
     last_error |-> last_error]

\* BotManager.start_monitoring while RUNNING: a warning, nothing else.
StartWhileRunning ==
    /\ Idle /\ status = RUNNING
    /\ UNCHANGED vars

\* BotManager.start_monitoring, up to the loop: status STARTING.  The call does
\* not suspend, so nothing else runs before StartFinish.
StartBegin ==
    /\ Idle /\ status # RUNNING
    /\ Len(tasks) + EnabledCount(monitored_wallets) <= MaxTasks
    /\ status' = STARTING
    /\ loop' = "start"
    /\ start_from' = status
    /\ UNCHANGED <<monitored_wallets, monitoring_tasks, tasks, ws_connections,
                   subscription_ids, transaction_history, stats, last_error,
                   stop_call, copy_calls, last_eval, delivered, updates_made,
                   arrivals, last_page, last_parse, last_msg, sent>>

\* BotManager.start_monitoring, the loop and status RUNNING.
StartFinish ==
    /\ loop = "start"
    /\ LET r == StartAll(monitored_wallets, tasks, monitoring_tasks)
       IN  tasks' = r[1] /\ monitoring_tasks' = r[2]
    /\ status' = RUNNING
    /\ loop' = "idle"
    /\ start_from' = "none"
    /\ UNCHANGED <<monitored_wallets, ws_connections, subscription_ids,
                   transaction_history, stats, last_error, stop_call, copy_calls,
                   last_eval, delivered, updates_made, arrivals, last_page, last_parse, last_msg, sent>>

\* BotManager.stop_monitoring while STOPPED: returns at once.
StopWhileStopped ==
    /\ Idle /\ stop_call.pc = "idle" /\ status = STOPPED
    /\ UNCHANGED vars

NoStop(result) ==
    [pc |-> "idle", pos |-> 0, used |-> 0, len |-> 0, waiting |-> 0, result |-> result]

\* BotManager.stop_monitoring, up to the loop: status STOPPING and the iterator
\* over monitoring_tasks.items() (position, and the size it expects).
StopBegin ==
    /\ Idle /\ stop_call.pc = "idle" /\ status # STOPPED
    /\ status' = STOPPING
    /\ loop' = "stop"
    /\ stop_call' = [pc |-> "iter", pos |-> 0, used |-> Used(monitoring_tasks),
                     len |-> Used(monitoring_tasks), waiting |-> 0, result |-> "none"]
    /\ UNCHANGED <<monitored_wallets, monitoring_tasks, tasks, ws_connections,
                   subscription_ids, transaction_history, stats, last_error,
                   copy_calls, last_eval, delivered, updates_made,
                   arrivals, last_page, last_parse, start_from, last_msg, sent>>

\* The next live entry of monitoring_tasks after position pos, 0 if none.
NextEntry(pos) ==
    LET later == {i \in (pos + 1)..Len(monitoring_tasks) : monitoring_tasks[i].task # 0}
    IN  IF later = {} THEN 0 ELSE CHOOSE i \in later : \A j \in later : i <= j

\* The loop of stop_monitoring from iterator position pos with len entries still
\* expected, as far as it runs without suspending: awaiting a finished task
\* does not suspend.  CPython's dict iterator raises RuntimeError when it finds
\* an entry it did not expect (the keys changed).
RECURSIVE StopRun(_, _)
StopRun(pos, len) ==
    LET i == NextEntry(pos)
    IN  IF i = 0 THEN [kind |-> "return"]
        ELSE IF len = 0 THEN [kind |-> "raise"]
        ELSE IF tasks[monitoring_tasks[i].task].pc = "done" THEN StopRun(i, len - 1)
        ELSE [kind |-> "await", pos |-> i, len |-> len - 1,
              task |-> monitoring_tasks[i].task]

\* One run of stop_monitoring's loop: RuntimeError when the dict changed size
\* since the iterator was made; else cancel the next task and await it, or
\* finish with clear() and status STOPPED.
StopLoop ==
    LET r == IF stop_call.used # Used(monitoring_tasks) THEN [kind |-> "raise"]
             ELSE StopRun(stop_call.pos, stop_call.len)
    IN  /\ loop' = "idle"
        /\ CASE r.kind = "raise" ->
                   /\ stop_call' = NoStop("raised")
                   /\ UNCHANGED <<status, monitoring_tasks, tasks>>
             [] r.kind = "return" ->
                   /\ stop_call' = NoStop("none")
                   /\ monitoring_tasks' = <<>>
                   /\ status' = STOPPED
                   /\ UNCHANGED tasks
             [] r.kind = "await" ->
                   /\ stop_call' = [stop_call EXCEPT !.pc = "await", !.pos = r.pos,
                                                     !.len = r.len, !.waiting = r.task]
                   /\ tasks' = Cancel(tasks, r.task)
                   /\ UNCHANGED <<status, monitoring_tasks>>
        /\ UNCHANGED <<monitored_wallets, ws_connections, subscription_ids,
                       transaction_history, stats, last_error, copy_calls, last_eval,
                       delivered, updates_made,
                   arrivals, last_page, last_parse, start_from, last_msg, sent>>

\* stop_monitoring enters its loop.
StopEnter ==
    /\ loop = "stop"
    /\ StopLoop

\* The awaited task has finished: stop_monitoring resumes its loop.
StopResume ==
    /\ Idle /\ stop_call.pc = "await"
    /\ tasks[stop_call.waiting].pc = "done"
    /\ StopLoop

\* ------------------------------------------------------- specification
Next ==
    \/ \E t \in 1..MaxTasks : TaskStart(t)
    \/ \E t \in 1..MaxTasks : ConnectOk(t)
    \/ \E t \in 1..MaxTasks : ConnectFail(t)
    \/ \E t \in 1..MaxTasks : SubscribeOk(t)
    \/ \E t \in 1..MaxTasks : SubscribeFail(t)
    \/ \E t \in 1..MaxTasks, s \in Sigs : RecvNotification(t, s)
    \/ \E t \in 1..MaxTasks : ConnectionClosed(t)
    \/ \E t \in 1..MaxTasks : FetchFailed(t)
    \/ \E t \in 1..MaxTasks : FetchOk(t)
    \/ \E t \in 1..MaxTasks : ProcessTransaction(t)
    \/ \E t \in 1..MaxTasks : TaskCancelled(t)
    \/ \E wallet_config \in AddInputs : add_wallet(wallet_config)
    \/ \E wallet_address \in Wallets : remove_wallet(wallet_address)
    \/ StartWhileRunning
    \/ StartBegin
    \/ StartFinish
    \/ StopWhileStopped
    \/ StopBegin
    \/ StopEnter
    \/ StopResume

Spec == Init /\ [][Next]_vars

\* The bot with update_wallet calls, as long as stop_monitoring is not called.
UpdateNext ==
    \/ \E t \in 1..MaxTasks : TaskStart(t)
    \/ \E t \in 1..MaxTasks : ConnectOk(t)
    \/ \E t \in 1..MaxTasks : ConnectFail(t)
    \/ \E t \in 1..MaxTasks : SubscribeOk(t)
    \/ \E t \in 1..MaxTasks : SubscribeFail(t)
    \/ \E t \in 1..MaxTasks, s \in Sigs : RecvNotification(t, s)
    \/ \E t \in 1..MaxTasks : ConnectionClosed(t)
    \/ \E t \in 1..MaxTasks : FetchFailed(t)
    \/ \E t \in 1..MaxTasks : FetchOk(t)
    \/ \E t \in 1..MaxTasks : ProcessTransaction(t)
    \/ \E t \in 1..MaxTasks : TaskCancelled(t)
    \/ \E wallet_config \in AddInputs : add_wallet(wallet_config)
    \/ \E wallet_address \in Wallets : remove_wallet(wallet_address)
    \/ \E wallet_address \in Wallets, updates \in PatchInputs :
           update_wallet(wallet_address, updates)
    \/ StartWhileRunning
    \/ StartBegin
    \/ StartFinish

SpecUpdate == Init /\ [][UpdateNext]_vars

\* The bot with messages of any subscription id on the monitors' streams, as
\* long as stop_monitoring is not called.
StreamNext ==
    \/ \E t \in 1..MaxTasks : TaskStart(t)
    \/ \E t \in 1..MaxTasks : ConnectOk(t)
    \/ \E t \in 1..MaxTasks : ConnectFail(t)
    \/ \E t \in 1..MaxTasks : SubscribeOk(t)
    \/ \E t \in 1..MaxTasks : SubscribeFail(t)
    \/ \E t \in 1..MaxTasks, s \in Sigs, subscription \in 1..MaxTasks :
           RecvMessage(t, s, subscription)
    \/ \E t \in 1..MaxTasks : ConnectionClosed(t)
    \/ \E t \in 1..MaxTasks : FetchFailed(t)
    \/ \E t \in 1..MaxTasks : FetchOk(t)
    \/ \E t \in 1..MaxTasks : ProcessTransaction(t)
    \/ \E t \in 1..MaxTasks : TaskCancelled(t)
    \/ \E wallet_config \in AddInputs : add_wallet(wallet_config)
    \/ \E wallet_address \in Wallets : remove_wallet(wallet_address)
    \/ StartWhileRunning
    \/ StartBegin
    \/ StartFinish

SpecStream == Init /\ [][StreamNext]_vars

\* ------------------------------------------------------------- claims
\* The monitor tasks with a live subscription for a wallet: subscribed, in
\* the receive loop of monitor_wallet, and not cancelled.
LiveMonitors(wallet_address) ==
    {t \in 1..Len(tasks) : /\ tasks[t].wallet = wallet_address
                           /\ tasks[t].pc \in {"listening", "fetching", "callback"}
                           /\ ~tasks[t].cancelling}

\* C1: each transaction signature triggers at most one copy execution:
\* _copy_transaction is invoked at most once per signature, whatever
\* notifications are delivered (the same signature twice included).
C1_AtMostOneCopyPerSignature ==
    \A s \in Sigs : copy_calls[s] <= 1

\* C2: no two entries of transaction_history share a signature (two
\* notifications with one signature append one entry).
C2_NoDuplicateHistoryEntry ==
    \A i, j \in 1..Len(transaction_history) :
        i # j => transaction_history[i].signature # transaction_history[j].signature

\* C3: while status stays STOPPED (stop_monitoring has returned and
\* start_monitoring has not been called again) no transaction is appended to
\* transaction_history and no statistic changes.
C3_NoMutationWhileStopped ==
    [][(status = STOPPED /\ status' = STOPPED)
          => (transaction_history' = transaction_history /\ stats' = stats)]_vars

\* C4: each wallet address has at most one live subscription.
C4_OneLiveSubscriptionPerWallet ==
    \A w \in Wallets : Cardinality(LiveMonitors(w)) <= 1

\* C5: status only moves along stopped -> starting -> running -> stopping ->
\* stopped, with error entered only from starting or running (and left by a
\* new start).
StatusOrder ==
    {<<STOPPED, STARTING>>, <<STARTING, RUNNING>>, <<RUNNING, STOPPING>>,
     <<STOPPING, STOPPED>>, <<STARTING, ERROR>>, <<RUNNING, ERROR>>, <<ERROR, STARTING>>}
C5_StatusSequential ==
    [][status' # status => <<status, status'>> \in StatusOrder]_vars

\* C6: a stop_monitoring() call never fails part-way: it does not end with an
\* exception that leaves status at STOPPING and monitoring_tasks uncleared.
C6_StopNeverFails ==
    stop_call.result # "raised"

\* C7: a transaction of kind unknown or program-interaction is never eligible:
\* _should_copy_transaction returns false for it.
C7_UnknownNeverEligible ==
    (last_eval # <<>> /\ last_eval[1].transaction_type \in {UNKNOWN, PROGRAM_INTERACTION})
        => ~last_eval[3]

\* C8: a native-transfer, token-transfer or swap is ineligible whenever its
\* toggle (copy_sol, copy_spl, copy_swaps) is false, whatever the amount and
\* the other toggles; the policy {copy_sol, not copy_spl, max_amount 0.5}
\* rejects a token-transfer of 0.1 and accepts a native-transfer of 0.3.
ScenarioPolicy(config) ==
    config.copy_sol /\ ~config.copy_spl /\ config.max_amount = Some(5000)
C8_KindGate ==
    last_eval # <<>> =>
        LET tx == last_eval[1]
            config == last_eval[2]
            eligible == last_eval[3]
        IN  /\ (tx.transaction_type = SOL_TRANSFER /\ ~config.copy_sol) => ~eligible
            /\ (tx.transaction_type = SPL_TRANSFER /\ ~config.copy_spl) => ~eligible
            /\ (tx.transaction_type = RAYDIUM_SWAP /\ ~config.copy_swaps) => ~eligible
            /\ (ScenarioPolicy(config) /\ tx.transaction_type = SOL_TRANSFER
                    /\ tx.amount = Some(3000)) => eligible
\* C8 witness: the scenario policy has rejected a token-transfer of 0.1 whose
\* amount passes the ceiling and the floor.
C8_Witness ==
    /\ last_eval # <<>>
    /\ last_eval[1].transaction_type = SPL_TRANSFER
    /\ last_eval[1].amount = Some(1000)
    /\ ScenarioPolicy(last_eval[2])
    /\ ~last_eval[3]
    /\ Len(transaction_history) = 1

\* C9: a transaction with a present amount is ineligible when the policy's
\* max_amount is set (0 included) and the amount exceeds it.
C9_Ceiling ==
    (last_eval # <<>> /\ last_eval[1].amount # None /\ last_eval[2].max_amount # None
        /\ last_eval[1].amount[1] > last_eval[2].max_amount[1])
        => ~last_eval[3]

\* C10: a transaction with a present amount (0 included) is ineligible when
\* the amount is below settings.min_transaction_amount.
C10_Floor ==
    (last_eval # <<>> /\ last_eval[1].amount # None
        /\ last_eval[1].amount[1] < min_transaction_amount)
        => ~last_eval[3]

\* C11: policy monotonicity: for a transaction with a present amount, a policy
\* with a set max_amount and any policy that differs from it only in a larger
\* set max_amount, eligibility under the smaller max_amount (0 included)
\* implies eligibility under the larger one.
C11_MonotoneInMaxAmount ==
    (last_eval # <<>> /\ last_eval[1].amount # None /\ last_eval[2].max_amount # None)
        => \A m \in MaxAmountInputs :
               (m # None /\ m[1] > last_eval[2].max_amount[1] /\ last_eval[3])
                   => _should_copy_transaction(last_eval[1],
                                               [last_eval[2] EXCEPT !.max_amount = m])

\* The kind gate of a policy: the toggle of the transaction's kind is not off.
PassesKindGate(tx, config) ==
    /\ tx.transaction_type = SOL_TRANSFER => config.copy_sol
    /\ tx.transaction_type = SPL_TRANSFER => config.copy_spl
    /\ tx.transaction_type = RAYDIUM_SWAP => config.copy_swaps

\* C12: fail-open default: a transaction whose amount is absent and which
\* passes the kind gate is eligible, whatever max_amount is configured.
C12_FailOpen ==
    (last_eval # <<>> /\ last_eval[1].amount = None
        /\ PassesKindGate(last_eval[1], last_eval[2]))
        => last_eval[3]
\* C12 witness: a native transfer without amount has been evaluated under a
\* policy with copy_sol and a max_amount of 0.5, and found eligible.
C12_Witness ==
    /\ last_eval # <<>>
    /\ last_eval[1].transaction_type = SOL_TRANSFER
    /\ last_eval[1].amount = None
    /\ last_eval[2].copy_sol
    /\ last_eval[2].max_amount = Some(5000)
    /\ last_eval[3]
    /\ copy_calls[last_eval[1].signature] = 1

\* The amount the source wallet paid in a ledger record: its balance before
\* the transaction minus its balance after it.
BalanceDelta(tx_data, source_wallet) ==
    LET i == CHOOSE k \in 1..Len(tx_data.accountKeys) : tx_data.accountKeys[k] = source_wallet
    IN  tx_data.preBalances[i] - tx_data.postBalances[i]

\* C13: a native transfer that went through the monitor pipeline carries the
\* source wallet's balance delta as its amount, and it is not eligible (so
\* never copied) when that delta exceeds the policy's max_amount or lies
\* below settings.min_transaction_amount.
C13_BalanceDeltaBounded ==
    (last_eval # <<>> /\ last_eval[1].transaction_type = SOL_TRANSFER)
        => LET tx == last_eval[1]
               config == last_eval[2]
               delta == BalanceDelta(Ledger[tx.signature], tx.source_wallet)
           IN  /\ tx.amount = Some(delta)
               /\ ((config.max_amount # None /\ delta > config.max_amount[1])
                       \/ delta < min_transaction_amount) => ~last_eval[3]

\* C14: the history never holds more than max_history_size entries, and it is
\* always the most recent entries processed, in arrival order: after more than
\* max_history_size transactions, exactly the last max_history_size of them.
C14_HistoryBound ==
    /\ Len(transaction_history) <= max_history_size
    /\ transaction_history =
           SubSeq(arrivals, Max0(Len(arrivals) - max_history_size) + 1, Len(arrivals))
\* C14 witness: more transactions than the capacity have been processed, the
\* history is full and its oldest entry is not the first transaction processed.
C14_Witness ==
    /\ Len(arrivals) > max_history_size
    /\ Len(transaction_history) = max_history_size
    /\ transaction_history[1].signature # arrivals[1].signature

\* The pages of the current history at offsets k*limit, (k+1)*limit, ...,
\* oldest page first.
RECURSIVE PagesFrom(_, _)
PagesFrom(limit, k) ==
    IF k * limit >= Len(transaction_history) THEN <<>>
    ELSE PagesFrom(limit, k + 1) \o get_transaction_history(limit, k * limit)

\* C15: every get_transaction_history(limit, offset) call with limit >= 1 and
\* offset >= 0 returns a contiguous slice of the history, in the history's
\* order, of length min(limit, max(0, len(history) - offset)); it is empty when
\* the offset is at or beyond the history length; and the pages at offsets 0,
\* limit, 2*limit, ... are disjoint and cover the history.
C15_HistoryPage ==
    [][last_page' # last_page =>
         LET r == last_page'.transactions
             n == Len(transaction_history)
         IN  /\ Len(r) = Min(last_page'.limit, Max0(n - last_page'.offset))
             /\ \E i \in 0..(n - Len(r)) : r = SubSeq(transaction_history, i + 1, i + Len(r))
             /\ last_page'.offset >= n => r = <<>>
             /\ PagesFrom(last_page'.limit, 0) = transaction_history]_vars
\* C15 witness: a call with limit 2 and offset 2 on a history of 3 entries has
\* returned the one entry left.
C15_Witness ==
    /\ last_page # <<>>
    /\ last_page.limit = 2 /\ last_page.offset = 2
    /\ last_page.total_count = 3
    /\ Len(last_page.transactions) = 1

\* The policy stored for a wallet is enabled.
EnabledWallet(d, w) == HasWallet(d, w) /\ d[WalletSlot(d, w)].config.enabled

\* C16: when a start_monitoring() call that began with status STOPPED
\* completes, status is RUNNING and monitoring_tasks holds one monitor task
\* for each wallet whose policy is enabled and none for any other wallet; a
\* start_monitoring() call while status is RUNNING starts nothing.
C16_StartMonitorsEnabled ==
    [][/\ (loop = "start" /\ start_from = STOPPED /\ loop' = "idle") =>
            /\ status' = RUNNING
            /\ Used(monitoring_tasks') = EnabledCount(monitored_wallets')
            /\ \A w \in Wallets :
                   /\ HasTask(monitoring_tasks', w) <=> EnabledWallet(monitored_wallets', w)
                   /\ HasTask(monitoring_tasks', w) =>
                          LET t == monitoring_tasks'[TaskSlot(monitoring_tasks', w)].task
                          IN  tasks'[t].wallet = w /\ tasks'[t].pc = "created"
       /\ status = RUNNING => (start_from' = "none" /\ status' # STARTING)]_vars
\* C16 witness: a start has completed with wallet a disabled and wallet b
\* enabled: the only monitor task is the one of b, not yet run.
C16_Witness ==
    /\ status = RUNNING
    /\ HasWallet(monitored_wallets, "a") /\ ~EnabledWallet(monitored_wallets, "a")
    /\ EnabledWallet(monitored_wallets, "b")
    /\ Used(monitoring_tasks) = 1 /\ HasTask(monitoring_tasks, "b")
    /\ Len(tasks) = 1 /\ tasks[1].pc = "created"

\* A monitor task ends in this step because its handshake failed: it was
\* connecting or subscribing, not cancelled, and is finished afterwards.
HandshakeFails(t) ==
    /\ t \in 1..Len(tasks)
    /\ tasks[t].pc \in {"connecting", "subscribing"} /\ ~tasks[t].cancelling
    /\ tasks'[t].pc = "done"

\* C17: when the subscription handshake of a wallet fails (connect fails or
\* the subscribe response has no id), the failure is recorded in last_error,
\* the wallet is left without monitor, and status and the monitors of the
\* other wallets are untouched.
C17_HandshakeFailureRecorded ==
    [][\A t \in 1..MaxTasks :
         HandshakeFails(t) =>
             /\ last_error' # None
             /\ ws_connections'[tasks[t].wallet] = 0
             /\ subscription_ids'[tasks[t].wallet] = 0
             /\ status' = status
             /\ \A u \in 1..Len(tasks) : u # t => tasks'[u] = tasks[u]]_vars

\* The connection of an active monitor is lost in this step: the task was in
\* its receive loop, not cancelled, and is no longer receiving afterwards.
Disconnects(t) ==
    /\ t \in 1..Len(tasks)
    /\ tasks[t].pc = "listening" /\ ~tasks[t].cancelling
    /\ tasks'[t].pc \notin {"listening", "fetching"}

\* C18: when the connection of an active monitor is lost, the monitor ends and
\* the ws_connections and subscription_ids entries of its wallet are released;
\* an ended monitor never runs again, and a new monitor task only appears in
\* a step of start_monitoring or add_wallet (one that stores it in
\* monitoring_tasks), so nothing subscribes again by itself.
C18_NoSelfReconnect ==
    [][/\ \A t \in 1..MaxTasks :
            /\ Disconnects(t) =>
                   /\ tasks'[t].pc = "done"
                   /\ ws_connections'[tasks[t].wallet] = 0
                   /\ subscription_ids'[tasks[t].wallet] = 0
                   /\ Len(tasks') = Len(tasks)
            /\ (t \in 1..Len(tasks) /\ tasks[t].pc = "done") => tasks'[t].pc = "done"
       /\ Len(tasks') >= Len(tasks)
       /\ \A t \in (Len(tasks) + 1)..Len(tasks') :
              /\ loop = "start" \/ (status = RUNNING /\ loop = "idle")
              /\ tasks'[t].pc = "created"
              /\ HasTask(monitoring_tasks', tasks'[t].wallet)
              /\ monitoring_tasks'[TaskSlot(monitoring_tasks', tasks'[t].wallet)].task = t]_vars
\* C18 witness: the only monitor task, still stored in monitoring_tasks while
\* RUNNING with no stop in progress, has processed a transaction and ended:
\* its connection was lost, and the wallet has no connection or subscription.
C18_Witness ==
    /\ status = RUNNING /\ stop_call.pc = "idle"
    /\ Len(tasks) = 1 /\ tasks[1].pc = "done" /\ tasks[1].wallet = "a"
    /\ HasTask(monitoring_tasks, "a")
    /\ Len(transaction_history) = 1
    /\ ws_connections["a"] = 0 /\ subscription_ids["a"] = 0

\* The wallets that have a monitor task which has not ended and is not being
\* cancelled.
WalletsWithLiveMonitor ==
    {w \in Wallets : \E t \in 1..Len(tasks) :
        tasks[t].wallet = w /\ tasks[t].pc # "done" /\ ~tasks[t].cancelling}

\* C19: the monitor count of get_status() equals the number of wallets that
\* have a live monitor; a wallet whose monitor has ended is not counted.
C19_StatusCountsLiveMonitors ==
    Idle =>
        get_status.monitored_wallets = Cardinality(WalletsWithLiveMonitor)

\* This step stores a new or different policy for wallet w (add_wallet).
PolicyAdded(w) ==
    /\ HasWallet(monitored_wallets', w)
    /\ \/ ~HasWallet(monitored_wallets, w)
       \/ monitored_wallets'[WalletSlot(monitored_wallets', w)].config
              # monitored_wallets[WalletSlot(monitored_wallets, w)].config
\* This step deletes the policy of wallet w (remove_wallet).
PolicyRemoved(w) ==
    HasWallet(monitored_wallets, w) /\ ~HasWallet(monitored_wallets', w)

\* C20: while RUNNING, adding an enabled policy creates a monitor task for its
\* address in the same step and removing a wallet cancels its monitor task and
\* drops it from monitoring_tasks; while not RUNNING, adding or removing a
\* wallet leaves monitoring_tasks and every task as they are.
C20_AddRemoveFollowStatus ==
    [][\A w \in Wallets :
         /\ (status = RUNNING /\ PolicyAdded(w) /\ EnabledWallet(monitored_wallets', w)) =>
                /\ Len(tasks') = Len(tasks) + 1
                /\ tasks'[Len(tasks')].wallet = w /\ tasks'[Len(tasks')].pc = "created"
                /\ HasTask(monitoring_tasks', w)
                /\ monitoring_tasks'[TaskSlot(monitoring_tasks', w)].task = Len(tasks')
         /\ (status = RUNNING /\ PolicyRemoved(w)) =>
                /\ ~HasTask(monitoring_tasks', w)
                /\ HasTask(monitoring_tasks, w) =>
                       LET t == monitoring_tasks[TaskSlot(monitoring_tasks, w)].task
                       IN  tasks'[t].pc = "done" \/ tasks'[t].cancelling
         /\ (status # RUNNING /\ (PolicyAdded(w) \/ PolicyRemoved(w))) =>
                /\ monitoring_tasks' = monitoring_tasks
                /\ Len(tasks') = Len(tasks)
                /\ \A t \in 1..Len(tasks) : tasks'[t].cancelling = tasks[t].cancelling]_vars

\* C21: once remove_wallet(address) has returned (the address is no longer in
\* monitored_wallets and has not been added again), no transaction of that
\* wallet is processed: none is appended to the history and no statistic
\* changes on its behalf.
C21_NothingAfterRemove ==
    [][\A w \in Wallets :
         (~HasWallet(monitored_wallets, w) /\ Len(arrivals') > Len(arrivals))
             => arrivals'[Len(arrivals')].source_wallet # w]_vars

\* The policy stored for wallet w.
StoredPolicy(d, w) == d[WalletSlot(d, w)].config
\* The toggles and the ceiling of a policy.
Rules(config) ==
    <<config.copy_sol, config.copy_spl, config.copy_swaps, config.max_amount>>
\* The stored policy of wallet w carries a patch of its toggles: it is not a
\* policy as add_wallet stores it, and its address is untouched.
Patched(d, w) ==
    HasWallet(d, w) /\ StoredPolicy(d, w) \notin AddInputs /\ StoredPolicy(d, w).address = w

\* C22: an update_wallet call changes only fields named in its patch, in one
\* policy, and leaves the keys of monitored_wallets, monitoring_tasks, the
\* tasks' progress, stats and history as they are; and once the stored policy
\* of a wallet has been patched, a transaction of that wallet is evaluated
\* under the stored (patched) policy.
C22_UpdateTakesEffect ==
    [][/\ updates_made' > updates_made =>
            /\ monitoring_tasks' = monitoring_tasks
            /\ stats' = stats /\ transaction_history' = transaction_history
            /\ Len(tasks') = Len(tasks)
            /\ \A t \in 1..Len(tasks) : /\ tasks'[t].pc = tasks[t].pc
                                         /\ tasks'[t].cancelling = tasks[t].cancelling
            /\ Len(monitored_wallets') = Len(monitored_wallets)
            /\ \E updates \in PatchInputs, i \in 0..Len(monitored_wallets) :
                   \A j \in 1..Len(monitored_wallets) :
                       /\ monitored_wallets'[j].key = monitored_wallets[j].key
                       /\ j # i => monitored_wallets'[j] = monitored_wallets[j]
                       /\ \A f \in DOMAIN monitored_wallets[j].config :
                              \/ monitored_wallets'[j].config[f] = monitored_wallets[j].config[f]
                              \/ f \in DOMAIN updates
                                     /\ monitored_wallets'[j].config[f] = updates[f]
       /\ (/\ Len(arrivals') > Len(arrivals)
           /\ Patched(monitored_wallets, arrivals'[Len(arrivals')].source_wallet))
              => Rules(last_eval'[2])
                    = Rules(StoredPolicy(monitored_wallets,
                                         arrivals'[Len(arrivals')].source_wallet))]_vars

\* C23: every entry of monitored_wallets is keyed by the address of its own
\* policy, so no operation changes the address of a stored policy.
C23_AddressImmutable ==
    \A i \in 1..Len(monitored_wallets) :
        monitored_wallets[i].config.address = monitored_wallets[i].key

\* Task u is in the middle of processing a notification: fetching the record
\* or running the pipeline, and not cancelled.
Processing(u) ==
    tasks[u].pc \in {"fetching", "callback"} /\ ~tasks[u].cancelling

\* C24: the notifications of one wallet are processed one at a time: when a
\* notification of a wallet is read, no earlier notification of the same
\* wallet is still being processed.
C24_OneAtATimePerWallet ==
    [][\A t \in 1..Len(tasks) :
         (tasks[t].pc = "listening" /\ tasks'[t].pc = "fetching")
             => \A u \in 1..Len(tasks) :
                    (u # t /\ tasks[u].wallet = tasks[t].wallet) => ~Processing(u)]_vars

\* The monitor of wallet a is cancelled or lost in this step: a task of a that
\* had not ended ends or gets cancelled, or a's policy is removed.
MonitorGoes(a) ==
    \/ \E t \in 1..Len(tasks) :
           /\ tasks[t].wallet = a /\ tasks[t].pc # "done"
           /\ \/ tasks'[t].pc = "done"
              \/ ~tasks[t].cancelling /\ tasks'[t].cancelling
    \/ PolicyRemoved(a)

\* Nothing of wallet w changes in this step: its tasks, its entry of
\* monitoring_tasks, its connection record, subscription id and policy.
WalletUntouched(w) ==
    /\ \A t \in 1..Len(tasks) : tasks[t].wallet = w => tasks'[t] = tasks[t]
    /\ HasTask(monitoring_tasks', w) <=> HasTask(monitoring_tasks, w)
    /\ HasTask(monitoring_tasks, w) =>
           monitoring_tasks'[TaskSlot(monitoring_tasks', w)].task
               = monitoring_tasks[TaskSlot(monitoring_tasks, w)].task
    /\ ws_connections'[w] = ws_connections[w]
    /\ subscription_ids'[w] = subscription_ids[w]
    /\ HasWallet(monitored_wallets', w) <=> HasWallet(monitored_wallets, w)
    /\ HasWallet(monitored_wallets, w) =>
           StoredPolicy(monitored_wallets', w) = StoredPolicy(monitored_wallets, w)

\* C25: a step of remove_wallet(a), or one in which a monitor of a ends (its
\* connection closes, its handshake fails, its cancellation is delivered),
\* leaves every other wallet's monitor tasks, monitoring_tasks entry,
\* connection record, subscription id and policy unchanged.
C25_OtherWalletsUntouched ==
    [][\A a \in Wallets :
         MonitorGoes(a) => \A w \in Wallets \ {a} : WalletUntouched(w)]_vars
\* C25 witness: wallet a has been removed and its monitor has ended, while the
\* monitor of wallet b is subscribed and receiving, with its records in place.
C25_Witness ==
    /\ ~HasWallet(monitored_wallets, "a") /\ ~HasTask(monitoring_tasks, "a")
    /\ Len(tasks) = 2
    /\ \E t, u \in 1..2 :
           /\ tasks[t].wallet = "a" /\ tasks[t].pc = "done"
           /\ tasks[u].wallet = "b" /\ tasks[u].pc = "listening" /\ ~tasks[u].cancelling
           /\ ws_connections["b"] = u /\ subscription_ids["b"] = u
           /\ HasTask(monitoring_tasks, "b")
    /\ status = RUNNING

\* C26: a message read by a monitor whose subscription id is not the id of
\* the monitor's own subscription is dropped: the step changes no task (the
\* monitor stays in its receive loop, no record is fetched), no history entry
\* is appended, nothing is copied and no statistic changes.
C26_MismatchedIdDropped ==
    [][(delivered' > delivered
           /\ last_msg'.subscription # SubscriptionId(last_msg'.task))
          => /\ tasks' = tasks
             /\ tasks'[last_msg'.task].pc = "listening"
             /\ transaction_history' = transaction_history
             /\ arrivals' = arrivals
             /\ copy_calls' = copy_calls
             /\ stats' = stats]_vars
\* C26 witness: the only message delivered named another subscription; the
\* monitor that read it is in its receive loop and nothing was processed.
C26_Witness ==
    /\ delivered = 1
    /\ last_msg # <<>>
    /\ last_msg.subscription # SubscriptionId(last_msg.task)
    /\ tasks[last_msg.task].pc = "listening"
    /\ arrivals = <<>> /\ stats = CopyTradingStats

\* Task t leaves the fetch of a record in this step without being cancelled.
FetchEnds(t) ==
    /\ t \in 1..Len(tasks)
    /\ tasks[t].pc = "fetching" /\ ~tasks[t].cancelling
    /\ tasks'[t].pc # "fetching"

\* C27: a notification whose record is marked failed on-chain, or whose record
\* could not be fetched, never reaches the pipeline: the monitor goes back to
\* its receive loop, and no history entry is appended, nothing is copied and
\* no statistic changes; every history entry has success = true and belongs
\* to a record that did not fail.
C27_FailedNeverProcessed ==
    [][/\ \A t \in 1..MaxTasks :
            (FetchEnds(t) /\ (Ledger[tasks[t].sig].err \/ tasks'[t].pc # "callback"))
                => /\ tasks'[t].pc = "listening"
                   /\ transaction_history' = transaction_history
                   /\ arrivals' = arrivals
                   /\ copy_calls' = copy_calls
                   /\ stats' = stats
       /\ \A i \in 1..Len(transaction_history') :
              /\ transaction_history'[i].success
              /\ ~Ledger[transaction_history'[i].signature].err]_vars
\* C27 witness: one notification was delivered to the only monitor, which is
\* back in its receive loop, and nothing was processed: the record had failed
\* on-chain or could not be fetched.
C27_Witness ==
    /\ delivered = 1
    /\ Len(tasks) = 1 /\ tasks[1].pc = "listening" /\ ~tasks[1].cancelling
    /\ arrivals = <<>> /\ transaction_history = <<>>
    /\ stats = CopyTradingStats

\* The number of _copy_transaction invocations so far.
RECURSIVE SumCalls(_, _)
SumCalls(calls, sigs) ==
    IF sigs = {} THEN 0
    ELSE LET x == CHOOSE y \in sigs : TRUE
         IN  calls[x] + SumCalls(calls, sigs \ {x})

\* C28: a copy attempt that fails (_copy_transaction returns false) is counted
\* as exactly one failed copy: total_transactions_copied and failed_copies go
\* up by one and the success, volume and per-kind counters stay; the copy is
\* attempted once, no error reaches the BotManager's last_error, and the
\* monitor that delivered the transaction returns to its receive loop.
C28_FailedCopyAccounted ==
    [][(SumCalls(copy_calls', Sigs) > SumCalls(copy_calls, Sigs)
           /\ ~_copy_transaction(last_eval'[1]))
          => /\ SumCalls(copy_calls', Sigs) = SumCalls(copy_calls, Sigs) + 1
             /\ stats'.total_transactions_copied = stats.total_transactions_copied + 1
             /\ stats'.failed_copies = stats.failed_copies + 1
             /\ stats'.successful_copies = stats.successful_copies
             /\ stats'.total_volume_copied = stats.total_volume_copied
             /\ stats'.sol_transfers_copied = stats.sol_transfers_copied
             /\ stats'.spl_transfers_copied = stats.spl_transfers_copied
             /\ stats'.swaps_copied = stats.swaps_copied
             /\ last_error' = last_error
             /\ \E t \in 1..Len(tasks) :
                    tasks[t].pc = "callback" /\ tasks'[t].pc = "listening"]_vars
\* C28 witness: the only monitor has processed two notifications, the first
\* with a failed copy and the second with a successful one.
C28_Witness ==
    /\ Len(tasks) = 1 /\ tasks[1].pc = "listening"
    /\ Len(arrivals) = 2
    /\ ~_copy_transaction(arrivals[1]) /\ _copy_transaction(arrivals[2])
    /\ stats.total_transactions_copied = 2
    /\ stats.failed_copies = 1 /\ stats.successful_copies = 1

\* C29: a copy is counted as succeeded only if a transaction was submitted
\* through send_transaction during the attempt: there are at least as many
\* submitted transactions as successful copies.
C29_SuccessMeansSubmitted ==
    stats.successful_copies <= Len(sent)

\* The account a ledger record's instruction targets: the account key at its
\* programIdIndex (indices start at 0).
TargetProgram(tx_data, instruction) ==
    tx_data.accountKeys[instruction.programIdIndex + 1]

\* C30: a classified transaction is labelled native-transfer exactly when an
\* instruction of its record targets the system program, wherever the system
\* program sits in the record's account list.
C30_NativeIffSystemProgram ==
    last_eval # <<>> =>
        LET tx_data == Ledger[last_eval[1].signature]
        IN  (last_eval[1].transaction_type = SOL_TRANSFER)
                <=> \E i \in 1..Len(tx_data.instructions) :
                        TargetProgram(tx_data, tx_data.instructions[i]) = SYSTEM_PROGRAM

\* The record of the last direct parser call is fetched, not failed, and well
\* formed: it has a signature and every instruction is an object.
WellFormed(tx_data) ==
    /\ ~tx_data.err
    /\ tx_data.signatures # <<>>
    /\ \A i \in 1..Len(tx_data.instructions) : IsMapping(tx_data.instructions[i])
\* An instruction of the record targets program p with opcode op.
HasInstruction(tx_data, p, op) ==
    \E i \in 1..Len(tx_data.instructions) :
        /\ TargetProgram(tx_data, tx_data.instructions[i]) = p
        /\ tx_data.instructions[i].data = op
\* The record has a native-transfer instruction: one that targets the system
\* program, or one the parser takes for it (programIdIndex 0).
HasNative(tx_data) ==
    \E i \in 1..Len(tx_data.instructions) :
        \/ TargetProgram(tx_data, tx_data.instructions[i]) = SYSTEM_PROGRAM
        \/ HasIndex0(tx_data.instructions[i])
HasTokenTransfer(tx_data) == HasInstruction(tx_data, TOKEN_PROGRAM, 3)
HasSwap(tx_data) == HasInstruction(tx_data, RAYDIUM_PROGRAM, 9)

\* C31: a well-formed record with no native-transfer instruction is classified
\* token-transfer, with an amount and an asset identifier, when it contains a
\* token-program transfer instruction; swap when it contains none but matches
\* the swap program; and unknown only when it matches none of the three.
C31_TokenAndSwapClassified ==
    (last_parse # <<>> /\ WellFormed(last_parse.tx_data) /\ ~HasNative(last_parse.tx_data))
        => /\ last_parse.result # None
           /\ LET tx_data == last_parse.tx_data
                  info == last_parse.result[1]
              IN  /\ HasTokenTransfer(tx_data)
                        => /\ info.transaction_type = SPL_TRANSFER
                           /\ info.amount # None /\ info.token_mint # None
                  /\ (~HasTokenTransfer(tx_data) /\ HasSwap(tx_data))
                        => info.transaction_type = RAYDIUM_SWAP
                  /\ info.transaction_type = UNKNOWN
                        => (~HasTokenTransfer(tx_data) /\ ~HasSwap(tx_data))

\* The record is malformed: its signatures list is empty or a value of its
\* instruction list is not an object.
Malformed(tx_data) ==
    \/ tx_data.signatures = <<>>
    \/ \E i \in 1..Len(tx_data.instructions) : ~IsMapping(tx_data.instructions[i])
\* An instruction object of the record is one the classifier knows: it targets
\* the system, token or swap program, or has programIdIndex 0.
Recognized(tx_data) ==
    \E i \in 1..Len(tx_data.instructions) :
        /\ IsMapping(tx_data.instructions[i])
        /\ \/ HasIndex0(tx_data.instructions[i])
           \/ TargetProgram(tx_data, tx_data.instructions[i])
                  \in {SYSTEM_PROGRAM, TOKEN_PROGRAM, RAYDIUM_PROGRAM}

\* C32: a fetched record that did not fail and is malformed, with no
\* instruction the classifier knows, is classified all the same: the result is
\* a transaction of kind unknown with amount None, and it is handed to the
\* pipeline, which appends it to the history.
C32_MalformedDegradesToUnknown ==
    (/\ last_parse # <<>>
     /\ ~last_parse.tx_data.err
     /\ Malformed(last_parse.tx_data) /\ ~Recognized(last_parse.tx_data))
        => /\ last_parse.result # None
           /\ last_parse.result[1].transaction_type = UNKNOWN
           /\ last_parse.result[1].amount = None
           /\ arrivals # <<>> /\ arrivals[Len(arrivals)] = last_parse.result[1]
           /\ transaction_history # <<>>
           /\ transaction_history[Len(transaction_history)] = last_parse.result[1]

\* C33: the copy counters add up in every state: every attempt counted in
\* total_transactions_copied is counted as a success or as a failure, and
\* every success under its kind; a monitor cancelled while the pipeline call
\* it awaits is pending leaves them so.
C33_CountersAddUp ==
    /\ stats.total_transactions_copied = stats.successful_copies + stats.failed_copies
    /\ stats.successful_copies
           = stats.sol_transfers_copied + stats.spl_transfers_copied + stats.swaps_copied
\* C33 witness: one native transfer was copied, and a monitor has been
\* cancelled while the pipeline call for its next transaction is pending.
C33_Witness ==
    /\ stats.total_transactions_copied = 1
    /\ stats.successful_copies = 1 /\ stats.sol_transfers_copied = 1
    /\ \E t \in 1..Len(tasks) : tasks[t].pc = "callback" /\ tasks[t].cancelling

\* C34: a transaction that is not eligible under the policy it is processed
\* with is appended to transaction_history (as its newest entry), and that is
\* all: no copy is attempted, nothing is submitted, and no field of the
\* statistics changes, last_activity included.
C34_RejectedOnlyRecorded ==
    [][(Len(arrivals') > Len(arrivals)
           /\ ~_should_copy_transaction(arrivals'[Len(arrivals')], last_eval'[2]))
          => /\ transaction_history' # <<>>
             /\ transaction_history'[Len(transaction_history')] = arrivals'[Len(arrivals')]
             /\ Len(transaction_history') = Min(Len(transaction_history) + 1, max_history_size)
             /\ copy_calls' = copy_calls
             /\ sent' = sent
             /\ stats' = stats]_vars
\* C34 witness: a native transfer of 0.8 SOL was rejected by the ceiling of
\* 0.5 SOL; it is the history's only entry and the statistics are untouched.
C34_Witness ==
    /\ last_eval # <<>> /\ ~last_eval[3]
    /\ last_eval[1].transaction_type = SOL_TRANSFER /\ last_eval[1].amount = Some(8000)
    /\ last_eval[2].copy_sol /\ last_eval[2].max_amount = Some(5000)
    /\ transaction_history = <<last_eval[1]>>
    /\ stats = CopyTradingStats /\ copy_calls = [s \in Sigs |-> 0]

\* The stored policy of wallet w has enabled = false.
Disabled(d, w) == HasWallet(d, w) /\ ~StoredPolicy(d, w).enabled

\* C35: a wallet whose stored policy has enabled = false has no live monitor,
\* and no transaction of it is copied while its policy is disabled; this
\* holds after every step, the update_wallet call that disables a wallet
\* whose monitor is running included.
C35_DisabledNotMonitored ==
    [][\A w \in Wallets :
         Disabled(monitored_wallets', w)
             => /\ LiveMonitors(w)' = {}
                /\ (Disabled(monitored_wallets, w)
                    /\ SumCalls(copy_calls', Sigs) > SumCalls(copy_calls, Sigs))
                       => last_eval'[1].source_wallet # w]_vars

\* Task t is turned away in this step: its first step finds its wallet in
\* ws_connections and returns ("Already monitoring").
TurnedAway(t) ==
    /\ tasks[t].pc = "created" /\ ~tasks[t].cancelling
    /\ tasks'[t].pc = "done"

\* C36: a monitor created by add_wallet after remove_wallet of the same
\* address is not turned away by the record of the removed monitor: no new
\* monitor finds in ws_connections the entry of a monitor that was cancelled
\* while it awaited the pipeline call and has not run its finally block yet.
C36_ReAddNotTurnedAway ==
    [][\A t \in 1..Len(tasks) :
         TurnedAway(t) =>
             LET holder == ws_connections[tasks[t].wallet]
             IN  ~(tasks[holder].cancelling /\ tasks[holder].pc = "callback")]_vars

\* stop_monitoring has returned and start_monitoring has not been called since.
Stopped == status = STOPPED /\ Idle /\ stop_call.pc = "idle"

\* C37: when stop_monitoring has returned, every wallet's ws_connections and
\* subscription_ids entries have been released, so that the monitors the next
\* start_monitoring creates are not rejected as already monitoring.
C37_StopReleasesEntries ==
    Stopped => \A w \in Wallets : ws_connections[w] = 0 /\ subscription_ids[w] = 0

====
